---- MODULE Spec2Model ----
(***************************************************************************)
(* Model of code/brain_extraction.py: a command-line script that locates a *)
(* subject's T1w image, runs FSL BET on it as a subprocess, probes for the *)
(* output artifact and writes processing_metadata.json beside it.          *)
(*                                                                         *)
(* Paths and file names are sequences of one-character strings, so that    *)
(* str.replace, str.endswith and the "/" of pathlib are computed as the    *)
(* code computes them.  The file system is the set of paths that exist,    *)
(* shared by every run of the script; several runs (operating-system       *)
(* processes) may be in flight at once.                                    *)
(***************************************************************************)
EXTENDS Integers, Sequences, FiniteSets, TLC

VARIABLES
    fs,        \* the set of paths that exist on disk
    content,   \* what this script / BET last wrote at a path
    host,      \* the machine's shell environment and FSL installation
    runs,      \* per process slot: position, arguments, locals, history
    vin,       \* validate_input harness: the argument
    vout       \* validate_input harness: the outcome

vars == <<fs, content, host, runs, vin, vout>>

(***************************************************************************)
(* Bounds                                                                  *)
(***************************************************************************)
NumRuns == 2          \* runs of the script, concurrent or one after another
MaxPieces == 3        \* name pieces appended to a stem in the harness

Procs == 1..NumRuns

(***************************************************************************)
(* Strings                                                                 *)
(***************************************************************************)
NII == <<".", "n", "i", "i">>
GZ == <<".", "g", "z">>
NIIGZ == NII \o GZ
TXT == <<".", "t", "x", "t">>
SUB == <<"s", "u", "b", "-">>
ANAT == <<"a", "n", "a", "t">>
T1W == <<"_", "T", "1", "w">>
BRAIN == <<"_", "b", "r", "a", "i", "n">>
METADATA_JSON ==
    <<"p", "r", "o", "c", "e", "s", "s", "i", "n", "g", "_",
      "m", "e", "t", "a", "d", "a", "t", "a", ".", "j", "s", "o", "n">>

NoPath == << >>

\* str.endswith(suffix)
EndsWith(s, suffix) ==
    /\ Len(s) >= Len(suffix)
    /\ SubSeq(s, Len(s) - Len(suffix) + 1, Len(s)) = suffix

\* str.endswith(('.nii', '.nii.gz'))
EndsWithNifti(s) == EndsWith(s, NII) \/ EndsWith(s, NIIGZ)

\* str.replace(old, ''): every non-overlapping occurrence, left to right
RECURSIVE Replace(_, _)
Replace(s, old) ==
    IF Len(s) < Len(old) THEN s
    ELSE IF SubSeq(s, 1, Len(old)) = old
         THEN Replace(SubSeq(s, Len(old) + 1, Len(s)), old)
         ELSE <<Head(s)>> \o Replace(Tail(s), old)

\* pathlib: parent / child, for a relative child
Slash(parent, child) == parent \o <<"/">> \o child

\* The path and every directory above it (what mkdir(parents=True) makes)
Ancestors(path) ==
    {SubSeq(path, 1, i) : i \in {j \in 1..Len(path) :
                                   j > 1 /\ (j = Len(path) \/ path[j + 1] = "/")}}

\* The directory holding path
Parent(path) ==
    LET cuts == {j \in 1..Len(path) : path[j] = "/"}
        last == CHOOSE j \in cuts : \A k \in cuts : k <= j
    IN  IF cuts = {} THEN NoPath ELSE SubSeq(path, 1, last - 1)

\* input_file.exists without the call: a bound method, always true
Exists_Uncalled(path, fsys) == TRUE

\* Path.exists()
Exists(path, fsys) == path \in fsys

(***************************************************************************)
(* Inputs                                                                  *)
(***************************************************************************)
InputRoot == <<"/", "d">>
OutputRoots == {<<"/", "o">>}
Subjects == {<<"7">>}
Thresholds == {4, 5}                  \* --f in tenths: 0.4 and the default 0.5
\* Ways BET fails: its exit status and what it wrote on stderr
BetFailures ==
    {[returncode |-> 1, stderr |-> "bet: cannot open image"],
     [returncode |-> 2, stderr |-> ""]}
VersionText == "6.0"

\* process_subject: the BIDS input path
InputFile(bids_dir, subject_id) ==
    Slash(Slash(Slash(bids_dir, SUB \o subject_id), ANAT),
          SUB \o subject_id \o T1W \o NIIGZ)

\* process_subject: the subject's output directory
SubjectOutputDir(output_dir, subject_id) == Slash(output_dir, SUB \o subject_id)

\* process_subject: the requested output file
OutputFile(subject_output_dir, subject_id) ==
    Slash(subject_output_dir, SUB \o subject_id \o T1W \o BRAIN \o NIIGZ)

\* run_bet: the base name handed to BET
OutputBase(output_file) == Replace(Replace(output_file, NIIGZ), NII)

\* save_metadata: the metadata file
MetadataFile(output_dir) == Slash(output_dir, METADATA_JSON)

(***************************************************************************)
(* Pure functions of the script                                            *)
(***************************************************************************)
NoExc == [type |-> "None", msg |-> << >>]

Raise(type, msg) == [type |-> type, msg |-> msg]

\* check_fsl: which is the outcome of subprocess.run(['which', 'bet'])
check_fsl(which, fsldir_in_environ) ==
    IF which = "returncode_0" THEN TRUE
    ELSE IF which = "returncode_1" THEN fsldir_in_environ
    ELSE \* FileNotFoundError: no 'which' program
         fsldir_in_environ

\* '.nii' in str(input_path)
Contains(s, sub) ==
    \E i \in 1..(Len(s) - Len(sub) + 1) : SubSeq(s, i, i + Len(sub) - 1) = sub

\* validate_input testing that the name contains .nii, not that it ends so
validate_input_contains(input_path, fsys) ==
    IF input_path \notin fsys
    THEN Raise("FileNotFoundError", <<"Input file not found: ">> \o input_path)
    ELSE IF ~Contains(input_path, NII)
    THEN Raise("ValueError",
               <<"Input must be a NIfTI file (.nii or .nii.gz), got: ">> \o input_path)
    ELSE NoExc

\* validate_input: the exception it raises, or NoExc when it returns True
validate_input(input_path, fsys) ==
    IF ~Exists(input_path, fsys)
    THEN Raise("FileNotFoundError", <<"Input file not found: ">> \o input_path)
    ELSE IF ~EndsWithNifti(input_path)
    THEN Raise("ValueError",
               <<"Input must be a NIfTI file (.nii or .nii.gz), got: ">> \o input_path)
    ELSE NoExc

\* save_metadata: the software_versions dictionary, as a set of <<key, value>>.
\* bet_V is the outcome of subprocess.run(['bet', '-V'], timeout=5);
\* version_file is the state of $FSLDIR/etc/fslversion.
software_versions(bet_V, fsldir_in_environ, version_file) ==
    (IF bet_V = "returncode_0" THEN {<<"fsl_bet", VersionText>>}
     ELSE IF bet_V = "returncode_1" THEN {}
     ELSE \* the call raised (no bet program, or TimeoutExpired)
          IF ~fsldir_in_environ THEN {}
          ELSE IF version_file = "absent" THEN {}
          ELSE IF version_file = "readable" THEN {<<"fsl", VersionText>>}
          ELSE {<<"fsl", "unknown">>})
    \cup {<<"python", "3">>}

(***************************************************************************)
(* State                                                                   *)
(***************************************************************************)
NewRun ==
    [pc |-> "check_fsl", id |-> 0,
     \* args
     input |-> NoPath, output |-> NoPath, subject |-> NoPath,
     fractional_intensity |-> 0,
     \* locals of process_subject and run_bet
     input_file |-> NoPath, subject_output_dir |-> NoPath,
     output_file |-> NoPath, output_base |-> NoPath,
     output_with_ext |-> NoPath, result_file |-> NoPath,
     \* how the process ended
     exc |-> NoExc, status |-> -1,
     \* history of this run
     fsl |-> "unchecked", failed_at |-> "none",
     touched |-> {},             \* paths this run has made or written
     bet_invoked |-> FALSE, bet_rc |-> -1, bet_stderr |-> "",
     bet_wrote |-> NoPath, metadata_written |-> FALSE]

\* main: argparse fills args
Args(id, output, subject, f) ==
    [NewRun EXCEPT !.id = id, !.input = InputRoot, !.output = output,
                   !.subject = subject, !.fractional_intensity = f]

NoData ==
    [kind |-> "none", by |-> 0, fractional_intensity |-> 0, subject_id |-> NoPath,
     input_file |-> NoPath, output_file |-> NoPath, software_versions |-> {}]

\* Disks the script may be started on: the dataset may be absent, present
\* without the subject's image, or complete.
InitialDisks ==
    {{}, Ancestors(InputRoot)}
    \cup {Ancestors(InputFile(InputRoot, s)) : s \in Subjects}

\* The runs share one machine and one shell environment: whether FSLDIR is
\* in os.environ, what 'bet -V' does and the state of $FSLDIR/etc/fslversion
\* are the same for all of them.  The model settles each the first time a
\* run looks at it.
UnreadHost == [FSLDIR |-> "unread", bet_V |-> "unread", version_file |-> "unread"]

Environ(h) == IF h.FSLDIR = "unread" THEN BOOLEAN ELSE {h.FSLDIR = "set"}

Looked(fsldir_in_environ) == IF fsldir_in_environ THEN "set" ELSE "unset"

BetVOutcomes(h) ==
    IF h.bet_V = "unread" THEN {"returncode_0", "returncode_1", "raised"}
    ELSE {h.bet_V}

VersionFileStates(h) ==
    IF h.version_file = "unread" THEN {"absent", "readable", "unreadable"}
    ELSE {h.version_file}

NoInput == [fn |-> "none", path |-> NoPath, fsys |-> {}]
NoOutcome == [done |-> FALSE, exc |-> NoExc, ret |-> NoPath]

Init ==
    /\ fs \in InitialDisks
    /\ content = [x \in {} |-> NoData]
    /\ host = UnreadHost
    /\ \E output \in [Procs -> OutputRoots], subject \in [Procs -> Subjects],
          f \in [Procs -> Thresholds] :
          \* the runs are interchangeable: each choice of thresholds once
          /\ \A p, q \in Procs : p < q => f[p] <= f[q]
          /\ runs = [p \in Procs |-> Args(p, output[p], subject[p], f[p])]
    /\ vin = NoInput
    /\ vout = NoOutcome

\* open(path, 'x'): a file already there is left as it is
Written_Exclusive(path, data) ==
    /\ fs' = fs \cup {path}
    /\ content' = [x \in DOMAIN content \cup {path} |->
                      IF x \in DOMAIN content THEN content[x] ELSE data]

\* A write of data at path: the file exists afterwards and holds data
Written(path, data) ==
    /\ fs' = fs \cup {path}
    /\ content' = [x \in DOMAIN content \cup {path} |->
                      IF x = path THEN data ELSE content[x]]

\* main: sys.exit(1) before processing starts
Exit1(r, stage) == [r EXCEPT !.pc = "exited", !.status = 1, !.failed_at = stage]

\* the handler logs the error and falls off the end of main
MainExcept_NoExit(r, e, stage) ==
    [r EXCEPT !.pc = "exited", !.exc = e, !.status = 0, !.failed_at = stage]

\* main: except Exception as e: logger.error(...); sys.exit(1)
MainExcept(r, e, stage) ==
    [r EXCEPT !.pc = "exited", !.exc = e, !.status = 1, !.failed_at = stage]

(***************************************************************************)
(* Operations                                                              *)
(***************************************************************************)
\* main logs that FSL is missing and carries on
MainCheckFsl_NoExit(p) ==
    LET r == runs[p] IN
    /\ r.pc = "check_fsl"
    /\ \E which \in {"returncode_0", "returncode_1", "FileNotFoundError"},
          fsldir \in Environ(host) :
          /\ host' = [host EXCEPT !.FSLDIR = IF which = "returncode_0" THEN @
                                             ELSE Looked(fsldir)]
          /\ runs' = [runs EXCEPT ![p] =
                         [r EXCEPT !.pc = "directories",
                                   !.fsl = IF check_fsl(which, fsldir)
                                           THEN "available" ELSE "missing"]]
    /\ UNCHANGED <<fs, content, vin, vout>>

\* main: if not check_fsl(): sys.exit(1)
MainCheckFsl(p) ==
    LET r == runs[p] IN
    /\ r.pc = "check_fsl"
    /\ \E which \in {"returncode_0", "returncode_1", "FileNotFoundError"},
          fsldir \in Environ(host) :
          /\ host' = [host EXCEPT !.FSLDIR = IF which = "returncode_0" THEN @
                                             ELSE Looked(fsldir)]
          /\ IF ~check_fsl(which, fsldir)
             THEN runs' = [runs EXCEPT ![p] =
                              Exit1([r EXCEPT !.fsl = "missing"], "check_fsl")]
             ELSE runs' = [runs EXCEPT ![p] =
                              [r EXCEPT !.pc = "directories", !.fsl = "available"]]
    /\ UNCHANGED <<fs, content, vin, vout>>

\* main: if not args.input.exists(): sys.exit(1); then
\* args.output.mkdir(parents=True, exist_ok=True).  The mkdir is outside the
\* try block: an OSError ends the interpreter with a traceback, status 1.
MainDirectories(p) ==
    LET r == runs[p] IN
    /\ r.pc = "directories"
    /\ IF ~Exists(r.input, fs)
       THEN /\ runs' = [runs EXCEPT ![p] = Exit1(r, "input_exists")]
            /\ UNCHANGED fs
       ELSE \/ /\ fs' = fs \cup Ancestors(r.output)
               /\ runs' = [runs EXCEPT ![p] =
                              [r EXCEPT !.pc = "process_subject",
                                        !.touched = @ \cup Ancestors(r.output)]]
            \/ /\ runs' = [runs EXCEPT ![p] =
                              [r EXCEPT !.pc = "exited", !.status = 1,
                                        !.exc = Raise("OSError", <<"mkdir: ">> \o r.output),
                                        !.failed_at = "mkdir_output"]]
               /\ UNCHANGED fs
    /\ UNCHANGED <<content, host, vin, vout>>

\* process_subject: build the input path, raise if it does not exist; then
\* subject_output_dir.mkdir(parents=True, exist_ok=True) and name the output
ProcessSubject(p) ==
    LET r == runs[p]
        input_file == InputFile(r.input, r.subject)
        subject_output_dir == SubjectOutputDir(r.output, r.subject)
        output_file == OutputFile(subject_output_dir, r.subject)
        r1 == [r EXCEPT !.input_file = input_file]
        r2 == [r1 EXCEPT !.subject_output_dir = subject_output_dir]
    IN
    /\ r.pc = "process_subject"
    /\ IF ~Exists(input_file, fs)
       THEN /\ runs' = [runs EXCEPT ![p] =
                           MainExcept(r1, Raise("FileNotFoundError",
                                                <<"Input file not found: ">> \o input_file),
                                      "resolve_input")]
            /\ UNCHANGED fs
       ELSE \/ /\ fs' = fs \cup Ancestors(subject_output_dir)
               /\ runs' = [runs EXCEPT ![p] =
                              [r2 EXCEPT !.pc = "validate_input",
                                         !.output_file = output_file,
                                         !.touched =
                                             @ \cup Ancestors(subject_output_dir)]]
            \/ /\ runs' = [runs EXCEPT ![p] =
                              MainExcept(r2, Raise("OSError",
                                                   <<"mkdir: ">> \o subject_output_dir),
                                         "mkdir_subject")]
               /\ UNCHANGED fs
    /\ UNCHANGED <<content, host, vin, vout>>

\* process_subject: validate_input(input_file)
PsValidateInput(p) ==
    LET r == runs[p]
        e == validate_input(r.input_file, fs)
    IN
    /\ r.pc = "validate_input"
    /\ IF e # NoExc
       THEN runs' = [runs EXCEPT ![p] = MainExcept(r, e, "validate_input")]
       ELSE runs' = [runs EXCEPT ![p] = [r EXCEPT !.pc = "run_bet"]]
    /\ UNCHANGED <<fs, content, host, vin, vout>>

\* the RuntimeError without e.stderr
BetFailed_NoStderr(stderr) == Raise("RuntimeError", <<"Brain extraction failed">>)

\* run_bet: except subprocess.CalledProcessError as e: raise RuntimeError(...)
BetFailed(stderr) == Raise("RuntimeError", <<"Brain extraction failed: ", stderr>>)

\* BET's own output: it appends its extension to the base it is given
BetData(r) ==
    [NoData EXCEPT !.kind = "image", !.by = r.id,
                   !.fractional_intensity = r.fractional_intensity,
                   !.subject_id = r.subject, !.input_file = r.input_file]

\* run_bet: strip the extension, build the command, subprocess.run(check=True).
\* BET is an opaque program: it may be missing, exit non-zero with text on
\* stderr, or exit 0 having written <base>.nii.gz, <base>.nii or nothing.
RunBetInvoke(p) ==
    LET r == runs[p]
        output_base == OutputBase(r.output_file)
        r1 == [r EXCEPT !.output_base = output_base, !.bet_invoked = TRUE]
    IN
    /\ r.pc = "run_bet"
    /\ \/ /\ runs' = [runs EXCEPT ![p] =
                         MainExcept(r1, Raise("FileNotFoundError", <<"bet">>), "run_bet")]
          /\ UNCHANGED <<fs, content>>
       \/ \E e \in BetFailures :
             /\ runs' = [runs EXCEPT ![p] =
                            MainExcept([r1 EXCEPT !.bet_rc = e.returncode,
                                                  !.bet_stderr = e.stderr],
                                       BetFailed(e.stderr), "run_bet")]
             /\ UNCHANGED <<fs, content>>
       \/ \E ext \in {NIIGZ, NII} :
             /\ Exists(Parent(output_base), fs)
             /\ Written(output_base \o ext, BetData(r1))
             /\ runs' = [runs EXCEPT ![p] =
                            [r1 EXCEPT !.pc = "probe", !.bet_rc = 0,
                                       !.bet_wrote = output_base \o ext,
                                       !.touched = @ \cup {output_base \o ext}]]
       \/ /\ runs' = [runs EXCEPT ![p] = [r1 EXCEPT !.pc = "probe", !.bet_rc = 0]]
          /\ UNCHANGED <<fs, content>>
    /\ UNCHANGED <<host, vin, vout>>

\* the probe looking for <base>.nii only
OutputWithExt_NiiOnly(output_base, fsys) == output_base \o NII

\* run_bet: the candidate the probe settles on
OutputWithExt(output_base, fsys) ==
    IF Exists(output_base \o NIIGZ, fsys)
    THEN output_base \o NIIGZ
    ELSE output_base \o NII

\* run_bet returning the candidate without looking whether it exists
ProbeOutput_Unchecked(output_base, fsys) ==
    [exc |-> NoExc, ret |-> OutputWithExt(output_base, fsys)]

\* run_bet, after BET has exited 0: the exception raised, or NoExc and the
\* path returned
ProbeOutput(output_base, fsys) ==
    LET output_with_ext == OutputWithExt(output_base, fsys) IN
    IF Exists(output_with_ext, fsys)
    THEN [exc |-> NoExc, ret |-> output_with_ext]
    ELSE [exc |-> Raise("FileNotFoundError",
                        <<"BET output file not found: ">> \o output_base),
          ret |-> NoPath]

\* run_bet: probe <base>.nii.gz, then <base>.nii; return the one that exists
\* or raise FileNotFoundError
RunBetProbe(p) ==
    LET r == runs[p]
        out == ProbeOutput(r.output_base, fs)
        r1 == [r EXCEPT !.output_with_ext = OutputWithExt(r.output_base, fs)]
    IN
    /\ r.pc = "probe"
    /\ IF out.exc = NoExc
       THEN runs' = [runs EXCEPT ![p] =
                        [r1 EXCEPT !.pc = "save_metadata", !.result_file = out.ret]]
       ELSE runs' = [runs EXCEPT ![p] = MainExcept(r1, out.exc, "probe")]
    /\ UNCHANGED <<fs, content, host, vin, vout>>

\* save_metadata: the JSON document
Metadata(r, versions) ==
    [kind |-> "metadata", by |-> r.id,
     fractional_intensity |-> r.fractional_intensity, subject_id |-> r.subject,
     input_file |-> r.input_file, output_file |-> r.result_file,
     software_versions |-> versions]

\* process_subject: save_metadata(...), then return to main, which falls off
\* its end (status 0).  open(metadata_file, 'w') may raise OSError.
SaveMetadata(p) ==
    LET r == runs[p]
        metadata_file == MetadataFile(r.subject_output_dir)
    IN
    /\ r.pc = "save_metadata"
    /\ \E bet_V \in BetVOutcomes(host), fsldir \in Environ(host),
          version_file \in VersionFileStates(host) :
          LET \* the fallback path alone looks at os.environ and the version file
              fallback == bet_V = "raised"
              versions == software_versions(bet_V, fsldir, version_file)
          IN  /\ host' = [host EXCEPT
                            !.bet_V = bet_V,
                            !.FSLDIR = IF fallback THEN Looked(fsldir) ELSE @,
                            !.version_file = IF fallback /\ fsldir THEN version_file
                                             ELSE @]
              /\ \/ /\ Written(metadata_file, Metadata(r, versions))
                    /\ runs' = [runs EXCEPT ![p] =
                                   [r EXCEPT !.pc = "exited", !.status = 0,
                                             !.metadata_written = TRUE,
                                             !.touched = @ \cup {metadata_file}]]
                 \/ /\ runs' = [runs EXCEPT ![p] =
                                   MainExcept(r, Raise("OSError", metadata_file),
                                              "save_metadata")]
                    /\ UNCHANGED <<fs, content>>
    /\ UNCHANGED <<vin, vout>>

Next ==
    \E p \in Procs :
        \/ MainCheckFsl(p)
        \/ MainDirectories(p)
        \/ ProcessSubject(p)
        \/ PsValidateInput(p)
        \/ RunBetInvoke(p)
        \/ RunBetProbe(p)
        \/ SaveMetadata(p)

Spec == Init /\ [][Next]_vars

(***************************************************************************)
(* The functions on their own: validate_input on any file name, present or *)
(* not, and run_bet's handling of the output path on any requested output  *)
(* file, with BET having exited 0 on a given disk.                         *)
(***************************************************************************)
Pieces == {NII, GZ, TXT, <<"x">>}

\* File names: a stem followed by at most n pieces
RECURSIVE Names(_)
Names(n) ==
    IF n = 0 THEN {<<"/", "a">>}
    ELSE Names(n - 1) \cup {s \o e : s \in Names(n - 1), e \in Pieces}

HarnessRoots == {<<"/", "o">>, <<"/", "o">> \o NII, <<"/", "o">> \o NIIGZ}
HarnessSubjects == {<<"7">>, <<"7">> \o NII}

\* The requested output path with its .nii.gz or .nii extension taken off
StripExt(path) ==
    IF EndsWith(path, NIIGZ) THEN SubSeq(path, 1, Len(path) - Len(NIIGZ))
    ELSE IF EndsWith(path, NII) THEN SubSeq(path, 1, Len(path) - Len(NII))
    ELSE path

ValidateInputs ==
    UNION {{[fn |-> "validate_input", path |-> n, fsys |-> d] : d \in {{}, {n}}} :
           n \in Names(MaxPieces)}

RunBetInputs ==
    UNION {LET output_file == OutputFile(SubjectOutputDir(o, s), s) IN
           {[fn |-> "run_bet", path |-> output_file, fsys |-> d] :
               d \in SUBSET {StripExt(output_file) \o NIIGZ,
                             StripExt(output_file) \o NII,
                             OutputBase(output_file) \o NIIGZ,
                             OutputBase(output_file) \o NII}} :
           o \in HarnessRoots, s \in HarnessSubjects}

InitPure ==
    /\ fs = {}
    /\ content = [x \in {} |-> NoData]
    /\ host = UnreadHost
    /\ runs = [p \in Procs |-> NewRun]
    /\ vin \in ValidateInputs \cup RunBetInputs
    /\ vout = NoOutcome

\* validate_input(vin.path) on the disk vin.fsys
ApplyValidateInput ==
    /\ vin.fn = "validate_input"
    /\ ~vout.done
    /\ vout' = [done |-> TRUE, exc |-> validate_input(vin.path, vin.fsys),
                ret |-> NoPath]
    /\ UNCHANGED <<fs, content, host, runs, vin>>

\* run_bet(input_file, vin.path), BET having exited 0 and left the disk vin.fsys
ApplyRunBet ==
    /\ vin.fn = "run_bet"
    /\ ~vout.done
    /\ LET out == ProbeOutput(OutputBase(vin.path), vin.fsys) IN
       vout' = [done |-> TRUE, exc |-> out.exc, ret |-> out.ret]
    /\ UNCHANGED <<fs, content, host, runs, vin>>

NextPure == ApplyValidateInput \/ ApplyRunBet

SpecPure == InitPure /\ [][NextPure]_vars

(***************************************************************************)
(* Properties                                                              *)
(***************************************************************************)
Failed(r) == r.fsl = "missing" \/ r.failed_at # "none" \/ r.exc # NoExc

\* C1: a run exits with status 1 whenever the availability check fails, the
\* input directory is missing or an exception is raised while processing;
\* it exits with status 0 only when every step succeeded.
C1_ExitStatus ==
    \A p \in Procs :
        LET r == runs[p] IN
        /\ Failed(r) => r.pc = "exited" /\ r.status = 1
        /\ r.pc = "exited" => r.status \in {0, 1}
        /\ r.status = 1 => Failed(r)
        /\ r.status = 0 =>
              /\ r.pc = "exited"
              /\ r.fsl = "available"
              /\ Exists(r.input, fs)
              /\ r.exc = NoExc
              /\ r.input_file \in fs /\ EndsWithNifti(r.input_file)
              /\ r.subject_output_dir \in fs
              /\ r.bet_invoked /\ r.bet_rc = 0
              /\ r.result_file # NoPath /\ r.result_file \in fs
              /\ r.metadata_written
              /\ MetadataFile(r.subject_output_dir) \in fs

\* C1 witness: one run has exited 1 on an exception raised while processing
\* and another has exited 0
C1_Witness ==
    \E p, q \in Procs :
        /\ runs[p].status = 1 /\ runs[p].exc.type = "RuntimeError"
        /\ runs[q].status = 0

\* C2: BET is invoked only after the input file built from the root directory
\* and the subject identifier was found to exist and to end in .nii or .nii.gz.
C2_InvokedOnlyOnValidInput ==
    \A p \in Procs :
        LET r == runs[p] IN
        r.bet_invoked =>
            /\ r.input_file = InputFile(r.input, r.subject)
            /\ r.input_file \in fs
            /\ EndsWith(r.input_file, NII) \/ EndsWith(r.input_file, NIIGZ)

\* C2 witness: a run has invoked BET on its input file
C2_Witness ==
    \E p \in Procs : runs[p].bet_invoked /\ runs[p].input_file \in fs

\* C3: a run whose availability check returned false has exited without
\* making a directory, invoking BET or writing an image or metadata file.
C3_NothingTouchedWithoutFsl ==
    \A p \in Procs :
        LET r == runs[p] IN
        r.fsl = "missing" =>
            /\ r.pc = "exited" /\ r.status = 1
            /\ r.touched = {}
            /\ ~r.bet_invoked /\ r.bet_wrote = NoPath
            /\ ~r.metadata_written
            /\ \A x \in DOMAIN content : content[x].by # p

\* C3 witness: a run has failed the availability check and exited while the
\* disk holds nothing beyond the dataset
C3_Witness ==
    \E p \in Procs :
        /\ runs[p].fsl = "missing" /\ runs[p].pc = "exited"
        /\ fs \in InitialDisks

\* C4: the metadata file is written only by a run whose BET exited 0 and
\* whose probe found the artifact; a run that failed earlier wrote none.
C4_MetadataOnlyAfterVerifiedOutput ==
    \A p \in Procs :
        LET r == runs[p]
            wrote_metadata ==
                \/ r.metadata_written
                \/ \E x \in DOMAIN content :
                      content[x].kind = "metadata" /\ content[x].by = p
        IN
        /\ wrote_metadata =>
              /\ r.bet_rc = 0
              /\ r.result_file \in {r.output_base \o NIIGZ, r.output_base \o NII}
              /\ r.result_file \in fs
        /\ r.failed_at \in {"check_fsl", "input_exists", "mkdir_output",
                            "resolve_input", "mkdir_subject", "validate_input",
                            "run_bet", "probe"} => ~wrote_metadata

\* C4 witness: a run has written its metadata file
C4_Witness ==
    \E p \in Procs :
        /\ runs[p].metadata_written /\ runs[p].bet_rc = 0
        /\ MetadataFile(runs[p].subject_output_dir) \in DOMAIN content

\* C5: when BET exits non-zero, run_bet raises RuntimeError whose message
\* carries BET's stderr text, and no output path is returned.
C5_NonZeroExitRaisesWithStderr ==
    \A p \in Procs :
        LET r == runs[p] IN
        (r.bet_invoked /\ r.bet_rc \notin {-1, 0}) =>
            /\ r.exc.type = "RuntimeError"
            /\ \E i \in 1..Len(r.exc.msg) : r.exc.msg[i] = r.bet_stderr
            /\ r.result_file = NoPath
            /\ r.pc = "exited"

\* C5 witness: BET has exited non-zero with text on stderr
C5_Witness ==
    \E p \in Procs :
        /\ runs[p].bet_rc = 1 /\ runs[p].bet_stderr # ""
        /\ runs[p].exc.type = "RuntimeError"

\* C6: after BET exits 0, run_bet returns <base>.nii.gz if a file exists
\* there, else <base>.nii if a file exists there, else raises the
\* output-missing error, <base> being the requested output path with its
\* .nii.gz or .nii extension stripped.
C6_ReturnsCandidateOfStrippedPath ==
    (vin.fn = "run_bet" /\ vout.done) =>
        LET base == StripExt(vin.path) IN
        IF base \o NIIGZ \in vin.fsys
        THEN vout.exc = NoExc /\ vout.ret = base \o NIIGZ
        ELSE IF base \o NII \in vin.fsys
        THEN vout.exc = NoExc /\ vout.ret = base \o NII
        ELSE vout.exc.type = "FileNotFoundError" /\ vout.ret = NoPath

\* The lookups of save_metadata that yield no version
FlagFailed == host.bet_V \in {"returncode_1", "raised"}
FileFailed ==
    host.FSLDIR = "unset" \/ host.version_file \in {"absent", "unreadable"}

\* C7: when the version flag fails (non-zero exit or exception) and the
\* version file yields nothing (FSLDIR unset, file absent or unreadable),
\* the metadata records "unknown" as the tool version.
C7_UnknownWhenBothLookupsFail ==
    \A x \in DOMAIN content :
        (content[x].kind = "metadata" /\ FlagFailed /\ FileFailed) =>
            \E k \in {"fsl", "fsl_bet"} :
                <<k, "unknown">> \in content[x].software_versions

\* C8 as stated: a name that does not end in .nii or .nii.gz makes
\* validate_input fail with ValueError, whether or not the path exists.
C8_InvalidFormatWhetherOrNotExists ==
    (vin.fn = "validate_input" /\ vout.done /\ ~EndsWithNifti(vin.path)) =>
        vout.exc.type = "ValueError"

\* C8 amended: an existing path whose name does not end in .nii or .nii.gz
\* makes validate_input fail with ValueError; a path that does not exist
\* makes it fail with FileNotFoundError, whatever its name.
C8_InvalidFormatWhenExists ==
    (vin.fn = "validate_input" /\ vout.done) =>
        IF vin.path \notin vin.fsys
        THEN vout.exc.type = "FileNotFoundError"
        ELSE ~(EndsWith(vin.path, NII) \/ EndsWith(vin.path, NIIGZ)) =>
                 vout.exc.type = "ValueError"

\* C8 witness: validate_input has raised ValueError on an existing file whose
\* name has .nii inside it but not at its end
C8_Witness ==
    /\ vin.fn = "validate_input" /\ vout.done
    /\ vin.path \in vin.fsys
    /\ vin.path = <<"/", "a">> \o NII \o TXT
    /\ vout.exc.type = "ValueError"

\* The step is a write by run p of its image / of its metadata file
BetWrites(p) == runs[p].pc = "run_bet" /\ runs'[p].bet_wrote # NoPath
MetadataWrites(p) == runs[p].pc = "save_metadata" /\ runs'[p].metadata_written

\* C9: the image artifact and the metadata file are each last-writer-wins,
\* independently: every write by BET replaces what is at the image path and
\* leaves the metadata alone, every save_metadata replaces what is at the
\* metadata path and leaves the image alone, and nothing else changes either.
C9_LastWriterWinsIndependently ==
    [][/\ \A p \in Procs :
            /\ BetWrites(p) =>
                  LET x == runs'[p].bet_wrote IN
                  /\ x \in DOMAIN content'
                  /\ content'[x].kind = "image" /\ content'[x].by = p
                  /\ content'[x].fractional_intensity = runs[p].fractional_intensity
                  /\ \A y \in DOMAIN content : y # x => content'[y] = content[y]
            /\ MetadataWrites(p) =>
                  LET x == MetadataFile(runs[p].subject_output_dir) IN
                  /\ x \in DOMAIN content'
                  /\ content'[x].kind = "metadata" /\ content'[x].by = p
                  /\ content'[x].fractional_intensity = runs[p].fractional_intensity
                  /\ \A y \in DOMAIN content : y # x => content'[y] = content[y]
       /\ content' # content =>
             \E p \in Procs : BetWrites(p) \/ MetadataWrites(p)]_vars

\* C9 witness: two runs for the same subject and output root, with different
\* thresholds, have both written the image and the metadata and exited 0;
\* the image left is one run's, the metadata names it but is the other's.
C9_Witness ==
    \E p, q \in Procs :
        LET image == runs[p].bet_wrote
            metadata_file == MetadataFile(runs[q].subject_output_dir)
        IN
        /\ p # q
        /\ runs[p].status = 0 /\ runs[q].status = 0
        /\ runs[p].output = runs[q].output /\ runs[p].subject = runs[q].subject
        /\ runs[p].fractional_intensity # runs[q].fractional_intensity
        /\ image # NoPath /\ runs[q].bet_wrote = image
        /\ content[image].by = p
        /\ content[metadata_file].by = q
        /\ content[metadata_file].output_file = image
        /\ content[metadata_file].fractional_intensity
              # content[image].fractional_intensity

\* C10: run_bet accepts a file it did not produce.  When BET exits 0 having
\* written nothing and a file already sits at <base>.nii.gz, the probe
\* returns that path; the run then saves metadata carrying its own
\* parameters and that path, and exits 0.
C10_StaleOutputAccepted ==
    [][\A p \in Procs :
          LET r == runs[p]
              stale == r.output_base \o NIIGZ
          IN
          (r.bet_rc = 0 /\ r.bet_wrote = NoPath /\ runs'[p] # r) =>
              /\ (r.pc = "probe" /\ stale \in fs) =>
                    /\ runs'[p].pc = "save_metadata"
                    /\ runs'[p].result_file = stale
                    /\ runs'[p].exc = NoExc
              /\ (r.pc = "save_metadata" /\ runs'[p].exc = NoExc) =>
                    LET x == MetadataFile(r.subject_output_dir) IN
                    /\ runs'[p].status = 0
                    /\ content'[x].by = p
                    /\ content'[x].fractional_intensity = r.fractional_intensity
                    /\ content'[x].output_file = r.result_file]_vars

\* C10 witness: a run whose BET wrote nothing has exited 0 on the image an
\* earlier run made with another threshold, and the metadata is its own
C10_Witness ==
    \E p \in Procs :
        LET r == runs[p]
            x == MetadataFile(r.subject_output_dir)
        IN
        /\ r.status = 0 /\ r.bet_rc = 0 /\ r.bet_wrote = NoPath
        /\ r.result_file = r.output_base \o NIIGZ
        /\ content[r.result_file].by # p
        /\ content[r.result_file].fractional_intensity # r.fractional_intensity
        /\ content[x].by = p /\ content[x].output_file = r.result_file

====
